---- MODULE Spec2Model ----
(***************************************************************************)
(* Model of src/src/__main__.py: the country reference-table pipeline.     *)
(*                                                                         *)
(* A DataFrame is a record [cols, rows]: its set of column names and the   *)
(* sequence of its rows; a row is a function from the column names to      *)
(* cells; a cell is <<v>> (a value) or <<>> (NaN / None).  The             *)
(* columns raw_index, cen_index and un_index carry the row label           *)
(* (DataFrame index) each source row had when it was read; pandas keeps    *)
(* that label in the index rather than in a column, no operation below     *)
(* reads it, and it is not among the columns written to the file.          *)
(***************************************************************************)
EXTENDS Integers, Sequences, FiniteSets, TLC

VARIABLES pc, centroids_df_raw, centroids_df, centroids, html_table, un_data,
          merged, override_i, stdout, csv_file, error, stages

vars == <<pc, centroids_df_raw, centroids_df, centroids, html_table, un_data,
          merged, override_i, stdout, csv_file, error, stages>>

-----------------------------------------------------------------------------
(* Bounds of the model.                                                    *)

\* longest raw centroid table read by the whole pipeline
MaxRaw == 2
\* longest run of extra rows in the classification table
MaxUn == 2
\* longest raw centroid table when fetch_centroids is checked on its own
MaxCentroidRaw == 3

-----------------------------------------------------------------------------
(* Cells, strings and generic DataFrame operations.                        *)

NA == <<>>

Some(v) == <<v>>

IsNA(cell) == cell = NA

\* Strings are kept in ASCII.  A_ring stands for the letter A with ring above
\* (U+00C5) of line 66; like it, it sorts after every ASCII letter.
A_ring == "|"

\* The characters that occur in the modelled tables, in code-point order.
Alphabet == " ,-.ABCDEFGHIJKLMNOPQRSTUVWXYZabcdefghijklmnopqrstuvwxyz" \o A_ring

CharRank(c) == CHOOSE i \in 1..Len(Alphabet) : SubSeq(Alphabet, i, i) = c

\* Python's str < str: lexicographic by code point.
RECURSIVE StrLess(_, _)
StrLess(a, b) ==
    IF b = "" THEN FALSE
    ELSE IF a = "" THEN TRUE
    ELSE IF Head(a) = Head(b) THEN StrLess(Tail(a), Tail(b))
    ELSE CharRank(Head(a)) < CharRank(Head(b))

RECURSIVE lstrip(_)
lstrip(s) == IF s # "" /\ Head(s) = " " THEN lstrip(Tail(s)) ELSE s

RECURSIVE rstrip(_)
rstrip(s) ==
    IF s # "" /\ SubSeq(s, Len(s), Len(s)) = " "
    THEN rstrip(SubSeq(s, 1, Len(s) - 1))
    ELSE s

\* str.strip()
strip(s) == rstrip(lstrip(s))

\* Series.str.strip(): NaN stays NaN.
StripCell(cell) == IF IsNA(cell) THEN NA ELSE Some(strip(cell[1]))

\* Order of two cells of a string column under sort_values: NaN sorts last.
CellLess(x, y) ==
    IF IsNA(x) THEN FALSE
    ELSE IF IsNA(y) THEN TRUE
    ELSE StrLess(x[1], y[1])

DataFrame(columns, rowseq) == [cols |-> columns, rows |-> rowseq]

\* The row r over the columns cols; a column r lacks is NaN.
Reindex(r, cols) == [c \in cols |-> IF c \in DOMAIN r THEN r[c] ELSE NA]

\* pd.DataFrame(list of dicts)
FromRecords(rowseq) ==
    LET cols == UNION {DOMAIN rowseq[i] : i \in 1..Len(rowseq)}
    IN  DataFrame(cols, [i \in 1..Len(rowseq) |-> Reindex(rowseq[i], cols)])

\* df[col]: the cells of a column, row by row
Column(df, col) == [i \in 1..Len(df.rows) |-> df.rows[i][col]]

\* The series that holds cell in every row of df.
Broadcast(df, cell) == [i \in 1..Len(df.rows) |-> cell]

\* df[col] = series
Assign(df, col, series) ==
    DataFrame(df.cols \cup {col},
              [i \in 1..Len(df.rows) |->
                  [c \in df.cols \cup {col} |->
                      IF c = col THEN series[i] ELSE df.rows[i][c]]])

\* df.drop(columns=cols)
Drop(df, cols) ==
    DataFrame(df.cols \ cols,
              [i \in 1..Len(df.rows) |-> [c \in df.cols \ cols |-> df.rows[i][c]]])

\* df[cols]
Project(df, cols) == Drop(df, df.cols \ cols)

\* df.rename(columns={old: new})
Rename(df, old, new) ==
    DataFrame((df.cols \ {old}) \cup {new},
              [i \in 1..Len(df.rows) |->
                  [c \in (df.cols \ {old}) \cup {new} |->
                      IF c = new THEN df.rows[i][old] ELSE df.rows[i][c]]])

\* df[mask]
Filter(df, mask) ==
    LET kept == SelectSeq([i \in 1..Len(df.rows) |-> i], LAMBDA i : mask[i])
    IN  DataFrame(df.cols, [k \in 1..Len(kept) |-> df.rows[kept[k]]])

\* pd.concat([a, b]): the rows of a then the rows of b, over the union of the columns.
Concat(a, b) ==
    LET cols == a.cols \cup b.cols
    IN  DataFrame(cols,
                  [i \in 1..Len(a.rows) |-> Reindex(a.rows[i], cols)] \o
                  [i \in 1..Len(b.rows) |-> Reindex(b.rows[i], cols)])

RECURSIVE InsertByColumn(_, _, _)
InsertByColumn(sorted, r, col) ==
    IF sorted = <<>> THEN <<r>>
    ELSE IF CellLess(r[col], sorted[Len(sorted)][col])
         THEN Append(InsertByColumn(SubSeq(sorted, 1, Len(sorted) - 1), r, col),
                     sorted[Len(sorted)])
         ELSE Append(sorted, r)

RECURSIVE SortRows(_, _)
SortRows(rowseq, col) ==
    IF rowseq = <<>> THEN <<>>
    ELSE InsertByColumn(SortRows(SubSeq(rowseq, 1, Len(rowseq) - 1), col),
                        rowseq[Len(rowseq)], col)

\* df.sort_values(col): ascending, NaN last; rows with equal keys keep their order.
SortValues(df, col) == DataFrame(df.cols, SortRows(df.rows, col))

KeyOf(r, on) == [i \in 1..Len(on) |-> r[on[i]]]

\* The rows of right whose key equals the key of the left row l.
Partners(l, right, left_on, right_on) ==
    SelectSeq(right.rows, LAMBDA r : KeyOf(r, right_on) = KeyOf(l, left_on))

RECURSIVE Flatten(_)
Flatten(ss) == IF ss = <<>> THEN <<>> ELSE Head(ss) \o Flatten(Tail(ss))

\* One left row joined with each of its partners, over the columns cols.
Joined(l, partners, cols) ==
    [j \in 1..Len(partners) |->
        [c \in cols |-> IF c \in DOMAIN l THEN l[c] ELSE partners[j][c]]]

\* left.merge(right, on=on, how='left', indicator=True): the left rows in order,
\* each joined with every right row of equal key, or kept alone.
MergeLeftIndicator(left, right, on) ==
    LET cols == left.cols \cup right.cols
        Mark(rowseq, how) ==
            [j \in 1..Len(rowseq) |->
                [c \in cols \cup {"_merge"} |->
                    IF c = "_merge" THEN Some(how) ELSE rowseq[j][c]]]
        Expand(l) ==
            LET p == Partners(l, right, on, on)
            IN  IF p = <<>> THEN Mark(<<Reindex(l, cols)>>, "left_only")
                ELSE Mark(Joined(l, p, cols), "both")
    IN  DataFrame(cols \cup {"_merge"},
                  Flatten([i \in 1..Len(left.rows) |-> Expand(left.rows[i])]))

\* pd.merge(left, right, left_on=.., right_on=.., how='outer') on one key column
\* each: every left row joined with every right row of equal key, the rows
\* of either side that have no partner kept with NaN for the other side's
\* columns, all in the order of the key.
MergeOuter(left, right, left_on, right_on) ==
    LET cols == left.cols \cup right.cols
        Expand(l) ==
            LET p == Partners(l, right, <<left_on>>, <<right_on>>)
            IN  IF p = <<>> THEN <<Reindex(l, cols)>> ELSE Joined(l, p, cols)
        fromLeft == Flatten([i \in 1..Len(left.rows) |-> Expand(left.rows[i])])
        rightOnly ==
            SelectSeq(right.rows,
                      LAMBDA r : \A i \in 1..Len(left.rows) :
                                    left.rows[i][left_on] # r[right_on])
        fromRight == [j \in 1..Len(rightOnly) |-> Reindex(rightOnly[j], cols)]
        Keyed(rowseq) ==
            [j \in 1..Len(rowseq) |->
                [c \in cols \cup {"_key"} |->
                    IF c # "_key" THEN rowseq[j][c]
                    ELSE IF IsNA(rowseq[j][left_on]) THEN rowseq[j][right_on]
                    ELSE rowseq[j][left_on]]]
    IN  Drop(DataFrame(cols \cup {"_key"},
                       SortRows(Keyed(fromLeft \o fromRight), "_key")),
             {"_key"})

-----------------------------------------------------------------------------
(* fetch_centroids.  Latitudes and longitudes are in units of 1/10000 of a *)
(* degree.                                                                 *)

RawCentroidColumns == {"longitude", "latitude", "COUNTRY", "ISO", "COUNTRYAFF", "AFF_ISO"}

RawCentroid(iso, country, lat, lon) ==
    [longitude |-> Some(lon), latitude |-> Some(lat), COUNTRY |-> Some(country),
     ISO |-> Some(iso), COUNTRYAFF |-> Some(country), AFF_ISO |-> Some(iso)]

\* Rows the centroid CSV may hold when fetch_centroids is checked on its own.
CentroidPool ==
    { RawCentroid("TF", "French Southern Territories", -493000, 692200),
      RawCentroid("TF", "Juan De Nova Island", -170600, 427400),
      RawCentroid(" TF", "Juan De Nova Island", -170600, 427400),
      RawCentroid("BQ", "Saba", 176300, -632400),
      RawCentroid("BQ", "Juan De Nova Island", 121800, -682600),
      RawCentroid("ES", "Canarias", 283400, -156700),
      RawCentroid("IC", "Canarias", 283400, -156700),
      RawCentroid("HK", "Hong Kong", 223964, 1141095) }

\* Rows the centroid CSV may hold when the whole pipeline runs.
RawPool ==
    { RawCentroid("FR", "France", 464000, 24600),
      RawCentroid(" FR", "France ", 464000, 24600),
      RawCentroid("FX", "France", 464000, 24600),
      RawCentroid("XK", "Kosovo", 425700, 209000),
      RawCentroid("HK", "Hong Kong", 223964, 1141095) }

\* The tables of at most maxlen rows drawn from pool.
Tables(pool, maxlen) == UNION {[1..n -> pool] : n \in 0..maxlen}

\* Number the rows 0, 1, ... in the column col (a fresh RangeIndex).
ResetIndex(df, col) ==
    DataFrame(df.cols \cup {col},
              [i \in 1..Len(df.rows) |->
                  [c \in df.cols \cup {col} |->
                      IF c = col THEN Some(i - 1) ELSE df.rows[i][c]]])

\* pd.read_csv(url, keep_default_na=False) of the table `table`.
read_csv(table) == ResetIndex(DataFrame(RawCentroidColumns, table), "raw_index")

_exclude_rows ==
    FromRecords(<<
        [ISO |-> Some("TF"), COUNTRY |-> Some("Juan De Nova Island")],
        [ISO |-> Some("TF"), COUNTRY |-> Some("Glorioso Islands")],
        [ISO |-> Some("BQ"), COUNTRY |-> Some("Saba")],
        [ISO |-> Some("BQ"), COUNTRY |-> Some("Saint Eustatius")],
        [ISO |-> Some("ES"), COUNTRY |-> Some("Canarias")] >>)

\* A plausible slip: the anti-join keyed on the ISO code alone.
ExcludeRowsOnIsoOnly(raw) ==
    LET _merge == MergeLeftIndicator(raw, _exclude_rows, <<"ISO">>)
    IN  Drop(Filter(_merge, [i \in 1..Len(_merge.rows) |->
                                _merge.rows[i]["_merge"] = Some("left_only")]),
             {"_merge"})

\* A plausible slip: the exclusion list is never applied.
ExcludeRowsSkipped(raw) == raw

ExcludeRows(raw) ==
    LET _merge == MergeLeftIndicator(raw, _exclude_rows, <<"ISO", "COUNTRY">>)
    IN  Drop(Filter(_merge, [i \in 1..Len(_merge.rows) |->
                                _merge.rows[i]["_merge"] = Some("left_only")]),
             {"_merge"})

CleanUp(df) ==
    LET stripped ==
            Assign(Assign(df,
                "ISO", [i \in 1..Len(df.rows) |-> StripCell(df.rows[i]["ISO"])]),
                "COUNTRY", [i \in 1..Len(df.rows) |-> StripCell(df.rows[i]["COUNTRY"])])
        sorted == Drop(SortValues(stripped, "ISO"), {"COUNTRYAFF", "AFF_ISO"})
    IN  Rename(Rename(sorted, "ISO", "iso"), "COUNTRY", "country")

_missing_lat_lon ==
    FromRecords(<<
        [country |-> Some("Hong Kong"), iso |-> Some("HK"),
         latitude |-> Some(223964), longitude |-> Some(1141095)],
        [country |-> Some("Macau"), iso |-> Some("MO"),
         latitude |-> Some(222109), longitude |-> Some(1135525)],
        [country |-> Some(A_ring \o "land Islands"), iso |-> Some("AX"),
         latitude |-> Some(602500), longitude |-> Some(200000)],
        [country |-> Some("Western Sahara"), iso |-> Some("EH"),
         latitude |-> Some(245000), longitude |-> Some(-130000)] >>)

AppendMissing(df) == ResetIndex(Concat(df, _missing_lat_lon), "cen_index")

fetch_centroids(raw) == AppendMissing(CleanUp(ExcludeRows(raw)))

EmptyFrame == DataFrame({}, <<>>)

\* The output columns, in the order of lines 181-188.
OutputColumns ==
    << "region", "subregion", "country", "iso2", "iso3", "m49", "m49_comtrade",
       "latitude", "longitude", "ldc", "non_country_region" >>

\* A countries.csv left by an earlier run.
PreviousFile == [header |-> OutputColumns, rows |-> <<>>]

\* stages is a history variable: the pipeline stages completed so far, in order.
Init ==
    /\ pc = "read_csv"
    /\ centroids_df_raw = EmptyFrame
    /\ centroids_df = EmptyFrame
    /\ centroids = EmptyFrame
    /\ html_table = EmptyFrame
    /\ un_data = EmptyFrame
    /\ merged = EmptyFrame
    /\ override_i = 0
    /\ stdout = <<>>
    /\ csv_file \in {NA, Some(PreviousFile)}
    /\ error = "none"
    /\ stages = <<>>

\* An exception nothing catches ends the script.
Raise(what) ==
    /\ pc' = "aborted"
    /\ error' = what

\* Line 16: the download succeeds and parses.
ReadCsv(pool, maxlen) ==
    /\ pc = "read_csv"
    /\ \E table \in Tables(pool, maxlen) : centroids_df_raw' = read_csv(table)
    /\ pc' = "exclude"
    /\ UNCHANGED <<centroids_df, centroids, html_table, un_data, merged,
                   override_i, stdout, csv_file, error, stages>>

\* Line 16: pd.read_csv raises (unreachable or malformed resource).
ReadCsvFails ==
    /\ pc = "read_csv"
    /\ Raise("read_csv")
    /\ UNCHANGED <<centroids_df_raw, centroids_df, centroids, html_table, un_data,
                   merged, override_i, stdout, csv_file, stages>>

ExcludeStep ==
    /\ pc = "exclude"
    /\ centroids_df' = ExcludeRows(centroids_df_raw)
    /\ pc' = "clean"
    /\ UNCHANGED <<centroids_df_raw, centroids, html_table, un_data, merged,
                   override_i, stdout, csv_file, error, stages>>

CleanStep ==
    /\ pc = "clean"
    /\ centroids_df' = CleanUp(centroids_df)
    /\ pc' = "append"
    /\ UNCHANGED <<centroids_df_raw, centroids, html_table, un_data, merged,
                   override_i, stdout, csv_file, error, stages>>

\* Lines 81-83 and the assignment of line 127.
AppendStep ==
    /\ pc = "append"
    /\ centroids' = AppendMissing(centroids_df)
    /\ pc' = "fetch_un"
    /\ stages' = Append(stages, "fetch_centroids")
    /\ UNCHANGED <<centroids_df_raw, centroids_df, html_table, un_data, merged,
                   override_i, stdout, csv_file, error>>

\* fetch_centroids on its own, over every table of CentroidPool.
NextCentroids ==
    \/ ReadCsv(CentroidPool, MaxCentroidRaw)
    \/ ReadCsvFails
    \/ ExcludeStep
    \/ CleanStep
    \/ AppendStep

SpecCentroids == Init /\ [][NextCentroids]_vars

-----------------------------------------------------------------------------
(* fetch_un_data.                                                          *)

HtmlColumns ==
    { "Global Name", "Region Name", "Sub-region Name", "Country or Area", "M49 Code",
      "ISO-alpha2 Code", "ISO-alpha3 Code", "Least Developed Countries (LDC)" }

UnRow(country, m49, region, subregion, iso3, iso2, ldc) ==
    [c \in HtmlColumns |->
        CASE c = "Global Name" -> Some("World")
          [] c = "Region Name" -> Some(region)
          [] c = "Sub-region Name" -> Some(subregion)
          [] c = "Country or Area" -> Some(country)
          [] c = "M49 Code" -> Some(m49)
          [] c = "ISO-alpha2 Code" -> Some(iso2)
          [] c = "ISO-alpha3 Code" -> Some(iso3)
          [] c = "Least Developed Countries (LDC)" -> Some(ldc)]

\* Rows the classification table may hold, in any order and number.
UnPool ==
    { UnRow("France", 250, "Europe", "Western Europe", "FRA", "FR", ""),
      UnRow("Afghanistan", 4, "Asia", "Southern Asia", "AFG", "AF", "x"),
      UnRow("China, Hong Kong Special Administrative Region", 344, "Asia",
            "Eastern Asia", "HKG", "HK", "") }

\* The classification rows of the four territories fetch_centroids appends.
UnTerritories ==
    << UnRow("China, Hong Kong Special Administrative Region", 344, "Asia",
             "Eastern Asia", "HKG", "HK", ""),
       UnRow("China, Macao Special Administrative Region", 446, "Asia",
             "Eastern Asia", "MAC", "MO", ""),
       UnRow(A_ring \o "land Islands", 248, "Europe", "Northern Europe", "ALA", "AX", ""),
       UnRow("Western Sahara", 732, "Africa", "Northern Africa", "ESH", "EH", "") >>

\* The classification tables: at most MaxUn rows of UnPool, then the four
\* territories or not.
UnTables ==
    {extra \o tail : extra \in Tables(UnPool, MaxUn), tail \in {<<>>, UnTerritories}}

\* pd.read_html(..., keep_default_na=False)[0] of the table `table`.
read_html(table) == ResetIndex(DataFrame(HtmlColumns, table), "un_index")

\* Lines 105-122, on the DataFrame read from the page.
fetch_un_data(df) ==
    LET withLdc ==
            Assign(df, "ldc",
                   [i \in 1..Len(df.rows) |->
                       Some(df.rows[i]["Least Developed Countries (LDC)"] = Some("x"))])
        renamed ==
            Rename(Rename(Rename(Rename(Rename(Rename(withLdc,
                "Country or Area", "country"),
                "M49 Code", "m49"),
                "Region Name", "region"),
                "Sub-region Name", "subregion"),
                "ISO-alpha3 Code", "iso3"),
                "ISO-alpha2 Code", "iso2")
    IN  Project(renamed, {"region", "subregion", "m49", "iso3", "iso2", "ldc", "un_index"})

FetchUnData ==
    /\ pc = "fetch_un"
    /\ \E table \in UnTables :
          /\ html_table' = read_html(table)
          /\ un_data' = fetch_un_data(read_html(table))
    /\ pc' = "merge"
    /\ stages' = Append(stages, "fetch_un_data")
    /\ UNCHANGED <<centroids_df_raw, centroids_df, centroids, merged, override_i,
                   stdout, csv_file, error>>

\* Lines 90-93: the request fails or raise_for_status raises.
FetchUnDataHttpError ==
    /\ pc = "fetch_un"
    /\ Raise("requests")
    /\ UNCHANGED <<centroids_df_raw, centroids_df, centroids, html_table, un_data,
                   merged, override_i, stdout, csv_file, stages>>

\* Lines 97-100: the page holds no table downloadTableEN and read_html raises.
FetchUnDataNoTable ==
    /\ pc = "fetch_un"
    /\ Raise("read_html")
    /\ UNCHANGED <<centroids_df_raw, centroids_df, centroids, html_table, un_data,
                   merged, override_i, stdout, csv_file, stages>>

-----------------------------------------------------------------------------
(* __main__.                                                               *)

\* A plausible slip: how='left', which drops the centroid rows without a partner.
MergeLeftOnly(left, right, left_on, right_on) ==
    LET cols == left.cols \cup right.cols
        Expand(l) ==
            LET p == Partners(l, right, <<left_on>>, <<right_on>>)
            IN  IF p = <<>> THEN <<Reindex(l, cols)>> ELSE Joined(l, p, cols)
    IN  DataFrame(cols, Flatten([i \in 1..Len(left.rows) |-> Expand(left.rows[i])]))

\* A plausible slip: how='left'.
MergeTablesLeft(un, cen) == Drop(MergeLeftOnly(un, cen, "iso2", "iso"), {"iso"})

\* Lines 131-137.
MergeTables(un, cen) == Drop(MergeOuter(un, cen, "iso2", "iso"), {"iso"})

MergeStep ==
    /\ pc = "merge"
    /\ merged' = MergeTables(un_data, centroids)
    /\ pc' = "init_comtrade"
    /\ UNCHANGED <<centroids_df_raw, centroids_df, centroids, html_table, un_data,
                   override_i, stdout, csv_file, error, stages>>

alternate_comtrade_m49_codes ==
    << <<251, "France">>, <<579, "Norway">>, <<699, "India">>,
       <<757, "Switzerland">>, <<842, "United States">> >>

\* Line 149, and the loop of line 151 starts.
InitComtrade ==
    /\ pc = "init_comtrade"
    /\ merged' = Assign(merged, "m49_comtrade", Column(merged, "m49"))
    /\ override_i' = 1
    /\ pc' = "remap"
    /\ UNCHANGED <<centroids_df_raw, centroids_df, centroids, html_table, un_data,
                   stdout, csv_file, error, stages>>

\* country_name in merged["country"].values
CountryPresent(df, country_name) ==
    \E i \in 1..Len(df.rows) : df.rows[i]["country"] = Some(country_name)

NotFoundMessage(country_name) == "Country " \o country_name \o " not found in merged."

\* A plausible slip: the missing name is looked up and the lookup raises.
OverrideMissingRaises ==
    /\ pc = "remap"
    /\ override_i \in 1..Len(alternate_comtrade_m49_codes)
    /\ ~CountryPresent(merged, alternate_comtrade_m49_codes[override_i][2])
    /\ Raise("KeyError")
    /\ UNCHANGED <<centroids_df_raw, centroids_df, centroids, html_table, un_data,
                   merged, override_i, stdout, csv_file, stages>>

\* Lines 152-154: the name is in no row; print and continue.
OverrideMissing ==
    /\ pc = "remap"
    /\ override_i \in 1..Len(alternate_comtrade_m49_codes)
    /\ ~CountryPresent(merged, alternate_comtrade_m49_codes[override_i][2])
    /\ stdout' = Append(stdout, NotFoundMessage(alternate_comtrade_m49_codes[override_i][2]))
    /\ override_i' = override_i + 1
    /\ UNCHANGED <<pc, centroids_df_raw, centroids_df, centroids, html_table, un_data,
                   merged, csv_file, error, stages>>

\* A plausible slip: the code is stored in the column m49.
SetComtradeWrongColumn(df, country_name, m49_code) ==
    Assign(df, "m49",
           [i \in 1..Len(df.rows) |->
               IF df.rows[i]["country"] = Some(country_name) THEN Some(m49_code)
               ELSE df.rows[i]["m49"]])

\* merged.loc[merged["country"] == country_name, "m49_comtrade"] = m49_code
SetComtrade(df, country_name, m49_code) ==
    Assign(df, "m49_comtrade",
           [i \in 1..Len(df.rows) |->
               IF df.rows[i]["country"] = Some(country_name) THEN Some(m49_code)
               ELSE df.rows[i]["m49_comtrade"]])

\* Line 155.
OverrideApply ==
    /\ pc = "remap"
    /\ override_i \in 1..Len(alternate_comtrade_m49_codes)
    /\ CountryPresent(merged, alternate_comtrade_m49_codes[override_i][2])
    /\ merged' = SetComtrade(merged, alternate_comtrade_m49_codes[override_i][2],
                             alternate_comtrade_m49_codes[override_i][1])
    /\ override_i' = override_i + 1
    /\ UNCHANGED <<pc, centroids_df_raw, centroids_df, centroids, html_table, un_data,
                   stdout, csv_file, error, stages>>

m49_non_country ==
    << [m49 |-> Some(899), region |-> NA, country |-> Some("NES")],
       [m49 |-> Some(568), region |-> Some("Europe"), country |-> Some("NES")],
       [m49 |-> Some(490), region |-> Some("Asia"), country |-> Some("NES")],
       [m49 |-> Some(577), region |-> Some("Africa"), country |-> Some("NES")],
       [m49 |-> Some(837), region |-> NA, country |-> Some("Bunkers")],
       [m49 |-> Some(838), region |-> NA, country |-> Some("Free Zones")],
       [m49 |-> Some(839), region |-> NA, country |-> Some("Special Categories")] >>

\* Lines 169-175.
_non_country_df ==
    LET df == FromRecords(m49_non_country)
    IN  Assign(Assign(Assign(df,
            "m49_comtrade", Column(df, "m49")),
            "ldc", Broadcast(df, Some(FALSE))),
            "non_country_region", Broadcast(df, Some(TRUE)))

\* A plausible slip: the flag column is created after the concatenation.
InjectNonCountryFlagLast(df) ==
    LET all == Concat(df, _non_country_df)
    IN  Assign(all, "non_country_region", Broadcast(all, Some(FALSE)))

\* Lines 157 and 177.
InjectNonCountry(df) ==
    Concat(Assign(df, "non_country_region", Broadcast(df, Some(FALSE))), _non_country_df)

\* The loop of line 151 is over; lines 157-177.
InjectStep ==
    /\ pc = "remap"
    /\ override_i > Len(alternate_comtrade_m49_codes)
    /\ merged' = InjectNonCountry(merged)
    /\ pc' = "astype"
    /\ UNCHANGED <<centroids_df_raw, centroids_df, centroids, html_table, un_data,
                   override_i, stdout, csv_file, error, stages>>

\* Series.astype(int) raises when a value is NaN.
AsTypeIntRaises(df) == \E i \in 1..Len(df.rows) : IsNA(df.rows[i]["m49_comtrade"])

\* Line 178, no NaN in the column: the values are whole numbers and stay as they are.
AsTypeInt ==
    /\ pc = "astype"
    /\ ~AsTypeIntRaises(merged)
    /\ pc' = "sort"
    /\ UNCHANGED <<centroids_df_raw, centroids_df, centroids, html_table, un_data,
                   merged, override_i, stdout, csv_file, error, stages>>

\* A plausible slip: the failed conversion is caught and the script carries on.
AsTypeIntFailureIgnored ==
    /\ pc = "astype"
    /\ AsTypeIntRaises(merged)
    /\ pc' = "sort"
    /\ error' = "astype"
    /\ UNCHANGED <<centroids_df_raw, centroids_df, centroids, html_table, un_data,
                   merged, override_i, stdout, csv_file, stages>>

\* Line 178, a NaN in the column.
AsTypeIntFails ==
    /\ pc = "astype"
    /\ AsTypeIntRaises(merged)
    /\ Raise("astype")
    /\ UNCHANGED <<centroids_df_raw, centroids_df, centroids, html_table, un_data,
                   merged, override_i, stdout, csv_file, stages>>

\* Line 179.
SortStep ==
    /\ pc = "sort"
    /\ merged' = SortValues(merged, "country")
    /\ pc' = "to_csv"
    /\ stages' = Append(stages, "reconcile")
    /\ UNCHANGED <<centroids_df_raw, centroids_df, centroids, html_table, un_data,
                   override_i, stdout, csv_file, error>>

StringColumns == {"region", "subregion", "country", "iso2", "iso3"}

\* A field of the file: a NaN or None of a text column is written as the empty
\* field; numbers and booleans are kept as cells, their text is not modelled.
CsvField(col, cell) ==
    IF col \in StringColumns THEN (IF IsNA(cell) THEN "" ELSE cell[1]) ELSE cell

\* Lines 181-194: the named columns in order, no index column.
to_csv(df) ==
    [header |-> OutputColumns,
     rows |-> [i \in 1..Len(df.rows) |->
                  [k \in 1..Len(OutputColumns) |->
                      CsvField(OutputColumns[k], df.rows[i][OutputColumns[k]])]]]

ToCsv ==
    /\ pc = "to_csv"
    /\ csv_file' = Some(to_csv(merged))
    /\ pc' = "print"
    /\ stages' = Append(stages, "write")
    /\ UNCHANGED <<centroids_df_raw, centroids_df, centroids, html_table, un_data,
                   merged, override_i, stdout, error>>

\* Lines 188-194: the file cannot be opened, or the write breaks off after
\* the file was truncated.
ToCsvFails ==
    /\ pc = "to_csv"
    /\ csv_file' \in {csv_file, Some([header |-> <<>>, rows |-> <<>>])}
    /\ Raise("to_csv")
    /\ UNCHANGED <<centroids_df_raw, centroids_df, centroids, html_table, un_data,
                   merged, override_i, stdout, stages>>

SavedMessage == "Country data has been fetched and saved to 'countries.csv'."

\* Lines 196-197.
PrintDone ==
    /\ pc = "print"
    /\ stdout' = stdout \o <<SavedMessage, "You can now use this data in your application.">>
    /\ pc' = "done"
    /\ UNCHANGED <<centroids_df_raw, centroids_df, centroids, html_table, un_data,
                   merged, override_i, csv_file, error, stages>>

Next ==
    \/ ReadCsv(RawPool, MaxRaw)
    \/ ReadCsvFails
    \/ ExcludeStep
    \/ CleanStep
    \/ AppendStep
    \/ FetchUnData
    \/ FetchUnDataHttpError
    \/ FetchUnDataNoTable
    \/ MergeStep
    \/ InitComtrade
    \/ OverrideMissing
    \/ OverrideApply
    \/ InjectStep
    \/ AsTypeInt
    \/ AsTypeIntFails
    \/ SortStep
    \/ ToCsv
    \/ ToCsvFails
    \/ PrintDone

Spec == Init /\ [][Next]_vars

-----------------------------------------------------------------------------
(* Claims about fetch_centroids.                                           *)

ExcludedPairs ==
    { <<"TF", "Juan De Nova Island">>, <<"TF", "Glorioso Islands">>,
      <<"BQ", "Saba">>, <<"BQ", "Saint Eustatius">>, <<"ES", "Canarias">> }

IsExcludedPair(r) == <<r["ISO"][1], r["COUNTRY"][1]>> \in ExcludedPairs

MatchesOneFieldOnly(r) ==
    /\ ~IsExcludedPair(r)
    /\ \E p \in ExcludedPairs : r["ISO"][1] = p[1] \/ r["COUNTRY"][1] = p[2]

Copies(rowseq, r) == Cardinality({j \in 1..Len(rowseq) : rowseq[j] = r})

IsoUnique(df) ==
    \A i, j \in 1..Len(df.rows) : df.rows[i]["iso"] = df.rows[j]["iso"] => i = j

\* C6: the exclusion step removes a raw row if and only if its ISO code and
\* its country name together equal one of the five excluded pairs; every
\* other row, also one that matches a pair on one field only, survives
\* exactly once, and nothing else is in the result.
C6_ExclusionExact ==
    pc = "clean" =>
        /\ \A i \in 1..Len(centroids_df_raw.rows) :
              LET r == centroids_df_raw.rows[i]
              IN  Copies(centroids_df.rows, r) = IF IsExcludedPair(r) THEN 0 ELSE 1
        /\ \A j \in 1..Len(centroids_df.rows) :
              Copies(centroids_df_raw.rows, centroids_df.rows[j]) = 1

C6_Witness ==
    /\ pc = "clean"
    /\ \E i \in 1..Len(centroids_df_raw.rows) : IsExcludedPair(centroids_df_raw.rows[i])
    /\ \E i \in 1..Len(centroids_df_raw.rows) :
          /\ MatchesOneFieldOnly(centroids_df_raw.rows[i])
          /\ Copies(centroids_df.rows, centroids_df_raw.rows[i]) = 1

\* C5 as stated: for every raw centroid input the table fetch_centroids
\* returns has no two rows with the same iso value.
C5_IsoUniqueForEveryInput == pc = "fetch_un" => IsoUnique(centroids)

ManualIsos == {"HK", "MO", "AX", "EH"}

\* The raw rows that are not excluded carry pairwise different ISO codes
\* once trimmed, and none of the four manually appended codes.
SurvivorsDistinct(raw) ==
    LET keep == {i \in 1..Len(raw.rows) : ~IsExcludedPair(raw.rows[i])}
        iso(i) == strip(raw.rows[i]["ISO"][1])
    IN  /\ \A i, j \in keep : iso(i) = iso(j) => i = j
        /\ \A i \in keep : iso(i) \notin ManualIsos

\* C5 amended: when the raw rows that the exclusion list does not remove
\* have pairwise different trimmed ISO codes, none of them HK, MO, AX or EH,
\* the table fetch_centroids returns has no two rows with the same iso value.
C5_IsoUniqueWhenSurvivorsDistinct ==
    (pc = "fetch_un" /\ SurvivorsDistinct(centroids_df_raw)) => IsoUnique(centroids)

C5_Witness ==
    /\ pc = "fetch_un"
    /\ SurvivorsDistinct(centroids_df_raw)
    /\ \E i, j \in 1..Len(centroids_df_raw.rows) :
          /\ i # j
          /\ centroids_df_raw.rows[i]["ISO"] = centroids_df_raw.rows[j]["ISO"]
    /\ Len(centroids.rows) > Cardinality(ManualIsos)

-----------------------------------------------------------------------------
(* Claims about the whole run.                                             *)

\* The table is final: sorted, about to be written or written.
FinalTable == pc \in {"to_csv", "print", "done"}

\* The file holds this run's output.
Written == pc \in {"print", "done"}

FileRows == csv_file[1].rows

Col(name) == CHOOSE k \in 1..Len(OutputColumns) : OutputColumns[k] = name

ClaimedOverrides ==
    { <<"France", 251>>, <<"Norway", 579>>, <<"India", 699>>,
      <<"Switzerland", 757>>, <<"United States", 842>> }

ClaimedOverrideNames == {o[1] : o \in ClaimedOverrides}

ClaimedCode(name) == (CHOOSE o \in ClaimedOverrides : o[1] = name)[2]

\* C1: in the written file every row whose country is one of France, Norway,
\* India, Switzerland, United States has the m49_comtrade 251, 579, 699, 757,
\* 842 of that name, and every other row, the seven synthetic rows included,
\* has m49_comtrade equal to its m49.
C1_ComtradeCodes ==
    Written =>
        \A i \in 1..Len(FileRows) :
            LET row == FileRows[i]
            IN  IF row[Col("country")] \in ClaimedOverrideNames
                THEN row[Col("m49_comtrade")] = Some(ClaimedCode(row[Col("country")]))
                ELSE row[Col("m49_comtrade")] = row[Col("m49")]

C1_Witness ==
    /\ Written
    /\ \E i \in 1..Len(FileRows) :
          /\ FileRows[i][Col("country")] = "France"
          /\ FileRows[i][Col("m49")] = Some(250)
          /\ FileRows[i][Col("m49_comtrade")] = Some(251)
          /\ FileRows[i][Col("iso2")] = "FR"
    /\ \E i \in 1..Len(FileRows) :
          /\ FileRows[i][Col("country")] = "Bunkers"
          /\ FileRows[i][Col("m49_comtrade")] = Some(837)
    /\ \E i \in 1..Len(FileRows) :
          /\ FileRows[i][Col("country")] = "Hong Kong"
          /\ FileRows[i][Col("m49_comtrade")] = Some(344)

Synthetic(r) == IsNA(r["un_index"]) /\ IsNA(r["cen_index"])

Flagged(df) == {i \in 1..Len(df.rows) : df.rows[i]["non_country_region"] = Some(TRUE)}

\* C2: in the final table exactly seven rows have non_country_region true,
\* they are the synthetic rows with m49 899, 568, 490, 577, 837, 838, 839,
\* and every row that comes from the centroid source or the classification
\* source, joined or not, has it false; the written file shows the same.
C2_SevenNonCountryRows ==
    /\ FinalTable =>
          /\ Cardinality(Flagged(merged)) = 7
          /\ {merged.rows[i]["m49"][1] : i \in Flagged(merged)}
                = {899, 568, 490, 577, 837, 838, 839}
          /\ \A i \in 1..Len(merged.rows) :
                /\ i \in Flagged(merged) <=> Synthetic(merged.rows[i])
                /\ i \notin Flagged(merged) =>
                      merged.rows[i]["non_country_region"] = Some(FALSE)
    /\ Written =>
          Cardinality({i \in 1..Len(FileRows) :
                          FileRows[i][Col("non_country_region")] = Some(TRUE)}) = 7

C2_Witness ==
    /\ Written
    /\ \E i \in 1..Len(merged.rows) :
          ~IsNA(merged.rows[i]["un_index"]) /\ ~IsNA(merged.rows[i]["cen_index"])
    /\ \E i \in 1..Len(merged.rows) :
          ~IsNA(merged.rows[i]["un_index"]) /\ IsNA(merged.rows[i]["cen_index"])
    /\ \E i \in 1..Len(merged.rows) :
          IsNA(merged.rows[i]["un_index"]) /\ ~IsNA(merged.rows[i]["cen_index"])

\* The merge of lines 131-137 has just run.
JustMerged == pc = "init_comtrade"

UnOnly(i) ==
    \A j \in 1..Len(centroids.rows) : centroids.rows[j]["iso"] # un_data.rows[i]["iso2"]

CentroidOnly(j) ==
    \A i \in 1..Len(un_data.rows) : un_data.rows[i]["iso2"] # centroids.rows[j]["iso"]

\* C3: a classification row whose iso2 matches no centroid row is in the
\* merged table with its country, region, subregion, m49, iso2, iso3 and LDC
\* flag unchanged and with latitude and longitude absent.
C3_UnmatchedClassificationRowKept ==
    JustMerged =>
        \A i \in 1..Len(html_table.rows) :
            UnOnly(i) =>
                \E k \in 1..Len(merged.rows) :
                    LET r == merged.rows[k]
                        h == html_table.rows[i]
                    IN  /\ r["un_index"] = h["un_index"]
                        /\ r["region"] = h["Region Name"]
                        /\ r["subregion"] = h["Sub-region Name"]
                        /\ r["m49"] = h["M49 Code"]
                        /\ r["iso2"] = h["ISO-alpha2 Code"]
                        /\ r["iso3"] = h["ISO-alpha3 Code"]
                        /\ r["ldc"] = Some(h["Least Developed Countries (LDC)"] = Some("x"))
                        /\ IsNA(r["latitude"])
                        /\ IsNA(r["longitude"])
                        /\ r["country"] = h["Country or Area"]

\* The merge has run and the centroid row j found no classification row.
HasCentroidOnly(j) ==
    /\ pc \in {"init_comtrade", "remap", "astype", "sort", "to_csv", "print", "done", "aborted"}
    /\ "fetch_un_data" \in {stages[k] : k \in 1..Len(stages)}
    /\ j \in 1..Len(centroids.rows)
    /\ CentroidOnly(j)

\* C4: a centroid row whose iso matches no classification row does not abort
\* the run, and the written file holds it with region, subregion, m49 and iso3
\* absent and its own country, latitude and longitude.
C4_CentroidOnlyRowReachesOutput ==
    \A j \in 1..Len(centroids.rows) :
        HasCentroidOnly(j) =>
            /\ error # "astype"
            /\ Written =>
                  \E i \in 1..Len(FileRows) :
                      /\ FileRows[i][Col("country")] = centroids.rows[j]["country"][1]
                      /\ FileRows[i][Col("latitude")] = centroids.rows[j]["latitude"]
                      /\ FileRows[i][Col("longitude")] = centroids.rows[j]["longitude"]
                      /\ FileRows[i][Col("region")] = ""
                      /\ FileRows[i][Col("subregion")] = ""
                      /\ FileRows[i][Col("iso3")] = ""
                      /\ IsNA(FileRows[i][Col("m49")])

UnRowAppears(i) ==
    \E k \in 1..Len(merged.rows) :
        \A c \in un_data.cols : merged.rows[k][c] = un_data.rows[i][c]

CentroidRowAppears(j) ==
    \E k \in 1..Len(merged.rows) :
        \A c \in centroids.cols \ {"iso"} : merged.rows[k][c] = centroids.rows[j][c]

Max(a, b) == IF a >= b THEN a ELSE b

EveryRowAppears ==
    /\ \A i \in 1..Len(un_data.rows) : UnRowAppears(i)
    /\ \A j \in 1..Len(centroids.rows) : CentroidRowAppears(j)
    /\ Len(merged.rows) >= Max(Len(centroids.rows), Len(un_data.rows))

\* C7 as stated: every row of either table is in the merged table, which has
\* at least max(count(centroids), count(classifications)) rows and at most
\* count(centroids) + count(classifications) rows.
C7_MergedCountWithinSum ==
    JustMerged =>
        /\ EveryRowAppears
        /\ Len(merged.rows) <= Len(centroids.rows) + Len(un_data.rows)

Occurrences(df, col, cell) == Cardinality({i \in 1..Len(df.rows) : df.rows[i][col] = cell})

\* No iso value occurs more than once in both tables.
NoKeyRepeatedOnBothSides ==
    \A i \in 1..Len(un_data.rows) :
        \/ Occurrences(un_data, "iso2", un_data.rows[i]["iso2"]) <= 1
        \/ Occurrences(centroids, "iso", un_data.rows[i]["iso2"]) <= 1

\* C7 amended: every row of either table is in the merged table, which has at
\* least max(count(centroids), count(classifications)) rows, and at most
\* count(centroids) + count(classifications) rows when no iso value occurs
\* more than once in both tables.
C7_MergedCountWithinSumUnlessFanOut ==
    JustMerged =>
        /\ EveryRowAppears
        /\ NoKeyRepeatedOnBothSides =>
              Len(merged.rows) <= Len(centroids.rows) + Len(un_data.rows)

C7_Witness ==
    /\ JustMerged
    /\ NoKeyRepeatedOnBothSides
    /\ \E i \in 1..Len(un_data.rows) : UnOnly(i)
    /\ \E j \in 1..Len(centroids.rows) : CentroidOnly(j)
    /\ \E i \in 1..Len(un_data.rows) :
          Occurrences(centroids, "iso", un_data.rows[i]["iso2"]) > 1
    /\ Len(merged.rows) > Max(Len(centroids.rows), Len(un_data.rows))
    /\ Len(merged.rows) < Len(centroids.rows) + Len(un_data.rows)

\* C8: in the written file the rows are in ascending order of country: the
\* country of each row is less than or equal to the country of the next row.
C8_FileSortedByCountry ==
    Written =>
        \A i \in 1..(Len(FileRows) - 1) :
            ~StrLess(FileRows[i + 1][Col("country")], FileRows[i][Col("country")])

IsPrefix(s, t) == Len(s) <= Len(t) /\ \A i \in 1..Len(s) : s[i] = t[i]

StageOrder == <<"fetch_centroids", "fetch_un_data", "reconcile", "write">>

InStdout(line) == \E i \in 1..Len(stdout) : stdout[i] = line

FileTouched == csv_file \notin {NA, Some(PreviousFile)}

StagesInOrder ==
    /\ IsPrefix(stages, StageOrder)
    /\ FileTouched =>
          /\ IsPrefix(<<"fetch_centroids", "fetch_un_data", "reconcile">>, stages)
          /\ error \in {"none", "to_csv"}
    /\ InStdout(SavedMessage) => stages = StageOrder /\ error = "none"
    /\ (pc = "aborted" /\ error # "to_csv") => ~FileTouched
    /\ pc = "aborted" <=> error # "none"

\* C9: the stages complete in the order fetch centroids, fetch
\* classifications, reconcile, write; the file is written and the confirmation
\* printed only after every earlier stage completed without error; a failure
\* before the write ends the run and leaves the file as it was.
C9_StagesInOrderNoPartialOutput ==
    /\ []StagesInOrder
    /\ [][(error' # "none" /\ error' # "to_csv") => csv_file' = csv_file]_vars
    /\ [][pc = "aborted" => pc' = "aborted"]_vars

C9_Witness ==
    /\ pc = "aborted"
    /\ error = "astype"
    /\ stages = <<"fetch_centroids", "fetch_un_data">>
    /\ csv_file = Some(PreviousFile)

OverrideName(k) == alternate_comtrade_m49_codes[k][2]

OverrideCode(k) == alternate_comtrade_m49_codes[k][1]

\* The loop of line 151 is at an override whose name is in no row.
AtMissingOverride ==
    /\ pc = "remap"
    /\ override_i \in 1..Len(alternate_comtrade_m49_codes)
    /\ ~CountryPresent(merged, OverrideName(override_i))

LoopFinished == pc = "remap" /\ override_i = Len(alternate_comtrade_m49_codes) + 1

OverridesSettled ==
    /\ \A k \in 1..Len(alternate_comtrade_m49_codes) :
          IF CountryPresent(merged, OverrideName(k))
          THEN \A i \in 1..Len(merged.rows) :
                  merged.rows[i]["country"] = Some(OverrideName(k)) =>
                      merged.rows[i]["m49_comtrade"] = Some(OverrideCode(k))
          ELSE InStdout(NotFoundMessage(OverrideName(k)))
    /\ \A i \in 1..Len(merged.rows) :
          (\A k \in 1..Len(alternate_comtrade_m49_codes) :
              merged.rows[i]["country"] # Some(OverrideName(k)))
          => merged.rows[i]["m49_comtrade"] = merged.rows[i]["m49"]

\* C10: at an override whose name is in no row the loop prints the diagnostic,
\* changes no m49_comtrade, raises nothing and goes on to the next override;
\* when the loop ends every override whose name is present has been applied;
\* and no run ends on a missing override: the conversion of line 178 fails
\* only on a row whose m49 is absent.
C10_MissingOverrideIsSkipped ==
    /\ [][AtMissingOverride =>
            /\ pc' = "remap"
            /\ error' = "none"
            /\ override_i' = override_i + 1
            /\ merged' = merged
            /\ stdout' = Append(stdout, NotFoundMessage(OverrideName(override_i)))]_vars
    /\ [](LoopFinished => OverridesSettled)
    /\ [](error \in {"none", "read_csv", "requests", "read_html", "astype", "to_csv"})
    /\ [](error = "astype" => \E i \in 1..Len(merged.rows) : IsNA(merged.rows[i]["m49"]))

C10_Witness ==
    /\ pc = "done"
    /\ InStdout(NotFoundMessage("Norway"))
    /\ InStdout(SavedMessage)
    /\ \E i \in 1..Len(merged.rows) :
          /\ merged.rows[i]["country"] = Some("France")
          /\ merged.rows[i]["m49_comtrade"] = Some(251)

====
